---- MODULE Spec2Model ----
(***************************************************************************)
(* Encrypted multi-device sync and conflict resolution of the journaling   *)
(* backend: the encrypted_backups and sync_conflicts tables, the          *)
(* SyncService operations on them and the /sync endpoints that call them.  *)
(***************************************************************************)
EXTENDS Integers, Sequences, FiniteSets, TLC

(* ------------------------------ bounds -------------------------------- *)
NumUsers == 2
NumIds == 1
NumDevices == 2
NumPayloads == 2
MaxTime == 2
MaxCreated == 1
MaxConflicts == 1
NumWorkers == 2
NumFetchIds == 3
MaxMetrics == 2
MaxCreatedAt == 2
NumLatePayloads == 3

Users == 1..NumUsers
Ids == 1..NumIds
Devices == 1..NumDevices
Payloads == 1..NumPayloads
Times == 1..MaxTime
Workers == 1..NumWorkers

(* Device ids are strings, numbered here; 0 is the empty string.           *)
EmptyDeviceId == 0
ConflictIds == 1..MaxConflicts

(* ------------------------------ values -------------------------------- *)
(* Optional[X]: None is the empty sequence, a value x is <<x>>.  A str is  *)
(* a sequence of character codes, bytes a sequence of 0..255.              *)
None == << >>
Some(x) == << x >>

(* Python truthiness of an Optional[str]: None and "" are falsy.           *)
Truthy(o) == o # None /\ o[1] # << >>

(* base64 text is a sequence of sextets 0..63, with 64 standing for '='.   *)
B64EncodeGroup(b) ==
    IF Len(b) = 1
    THEN << b[1] \div 4, (b[1] % 4) * 16, 64, 64 >>
    ELSE IF Len(b) = 2
    THEN << b[1] \div 4, (b[1] % 4) * 16 + (b[2] \div 16), (b[2] % 16) * 4, 64 >>
    ELSE << b[1] \div 4, (b[1] % 4) * 16 + (b[2] \div 16),
            (b[2] % 16) * 4 + (b[3] \div 64), b[3] % 64 >>

RECURSIVE b64encode(_)
b64encode(b) ==
    IF Len(b) = 0 THEN << >>
    ELSE IF Len(b) <= 3 THEN B64EncodeGroup(b)
    ELSE B64EncodeGroup(SubSeq(b, 1, 3)) \o b64encode(SubSeq(b, 4, Len(b)))

B64DecodeGroup(s) ==
    LET b1 == s[1] * 4 + (s[2] \div 16)
        b2 == (s[2] % 16) * 16 + (s[3] \div 4)
        b3 == (s[3] % 4) * 64 + s[4]
    IN  IF s[3] = 64 THEN << b1 >>
        ELSE IF s[4] = 64 THEN << b1, b2 >>
        ELSE << b1, b2, b3 >>

RECURSIVE b64decode(_)
b64decode(s) ==
    IF Len(s) = 0 THEN << >>
    ELSE B64DecodeGroup(SubSeq(s, 1, 4)) \o b64decode(SubSeq(s, 5, Len(s)))

(* ------------------------- request payloads --------------------------- *)
(* The ciphertext of version p as the client holds it, before encoding.    *)
ContentBytes(p) == << p, 250 + p >>
EmbeddingBytes(p) == << 100 + p, p, 7 >>

(* EncryptedBackupData as the endpoint receives it.  Odd versions carry an *)
(* auth tag and an embedding, even versions carry neither, and every third *)
(* version carries an empty embedding string with an embedding IV.         *)
EncryptedBackupData(id, p, created, updated, dev) ==
    [ id |-> id,
      encrypted_content |-> b64encode(ContentBytes(p)),
      content_iv |-> << p >>,
      content_tag |-> IF p % 2 = 1 THEN Some(<< 10 + p >>) ELSE None,
      encrypted_embedding |->
          IF p % 3 = 0 THEN Some(<< >>)
          ELSE IF p % 2 = 1 THEN Some(b64encode(EmbeddingBytes(p))) ELSE None,
      embedding_iv |->
          IF p % 3 = 0 \/ p % 2 = 1 THEN Some(<< 20 + p >>) ELSE None,
      created_at |-> created,
      updated_at |-> updated,
      device_id |-> dev ]

Candidates ==
    { EncryptedBackupData(id, p, c, t, d) :
        id \in Ids, p \in Payloads, c \in 1..MaxCreated, t \in Times,
        d \in Devices }

Tiers == { "local_only", "analytics_sync", "full_sync" }

VARIABLES
    encrypted_backups,   \* table encrypted_backups: a set of rows, primary key id
    sync_conflicts,      \* table sync_conflicts: a set of rows, primary key id
    privacy_tier,        \* users.privacy_tier, per user
    clock,               \* the server's wall clock (datetime.utcnow)
    last,                \* the request handled last and its response
    inflight,            \* the pushes in flight in the request workers
    encrypted_metrics    \* table encrypted_metrics: a set of rows, primary key id

vars == << encrypted_backups, sync_conflicts, privacy_tier, clock, last,
           inflight, encrypted_metrics >>

(* ------------------------------ tables -------------------------------- *)
(* Mutation: the query leaves out the owner.                               *)
BackupsOf_any_owner(backups, id, user_id) ==
    { r \in backups : r.id = id }

(* The rows a query for (id, user_id) matches; id is the primary key, so   *)
(* there is at most one.                                                   *)
BackupsOf(backups, id, user_id) ==
    { r \in backups : r.id = id /\ r.user_id = user_id }

(* Query(...).first(): the row as an Optional.                             *)
First(rows) == IF rows = {} THEN None ELSE Some(CHOOSE r \in rows : TRUE)

RowWithId(table, id) == { r \in table : r.id = id }

(* datetime.utcnow(): the wall clock does not run backwards.               *)
UtcNow == { t \in Times : t >= clock }

(* -------------------------- SyncService ------------------------------- *)
(* Mutation: a conflict whenever the timestamps differ, whatever the       *)
(* devices.                                                                *)
detect_conflict_any_device(local_backup, remote_backup) ==
    IF local_backup.id # remote_backup.id THEN FALSE
    ELSE local_backup.updated_at # remote_backup.updated_at

(* Mutation: never a conflict.                                             *)
detect_conflict_never(local_backup, remote_backup) == FALSE

detect_conflict(local_backup, remote_backup) ==
    IF local_backup.id # remote_backup.id THEN FALSE
    ELSE IF local_backup.updated_at # remote_backup.updated_at
    THEN (IF local_backup.device_id # remote_backup.device_id THEN TRUE ELSE FALSE)
    ELSE FALSE

(* The SyncConflict row built from the candidate and the loaded backup.    *)
SyncConflictRow(conflict_id, user_id, log_id, local_data, remote_data, now) ==
    [ id |-> conflict_id,
      user_id |-> user_id,
      log_id |-> log_id,
      local_encrypted_content |-> b64decode(local_data.encrypted_content),
      local_iv |-> local_data.content_iv,
      local_tag |-> local_data.content_tag,
      local_updated_at |-> local_data.updated_at,
      local_device_id |-> local_data.device_id,
      remote_encrypted_content |-> remote_data.encrypted_content,
      remote_iv |-> remote_data.content_iv,
      remote_tag |-> remote_data.content_tag,
      remote_updated_at |-> remote_data.updated_at,
      remote_device_id |-> remote_data.device_id,
      detected_at |-> now,
      resolved |-> FALSE,
      resolved_at |-> None ]

(* The primary key the new conflict row gets: one no row holds yet.        *)
FreeConflictIds(conflicts) == ConflictIds \ { c.id : c \in conflicts }
NewConflictId(conflicts) ==
    CHOOSE i \in FreeConflictIds(conflicts) :
        \A j \in FreeConflictIds(conflicts) : i <= j

create_conflict_record(conflicts, user_id, log_id, local_data, remote_data, now) ==
    LET conflict == SyncConflictRow(NewConflictId(conflicts), user_id, log_id,
                                    local_data, remote_data, now)
    IN  [ conflicts |-> conflicts \cup { conflict }, conflict |-> conflict ]

(* Mutation: the overwrite branch takes the candidate's created_at too.    *)
OverwriteFields_with_created(existing, backup_data) ==
    [ existing EXCEPT
        !.encrypted_content = b64decode(backup_data.encrypted_content),
        !.content_iv = backup_data.content_iv,
        !.content_tag = backup_data.content_tag,
        !.created_at = backup_data.created_at,
        !.updated_at = backup_data.updated_at,
        !.device_id = backup_data.device_id ]

(* The attribute assignments of the overwrite branch, on the loaded row.   *)
OverwriteFields(existing, backup_data) ==
    LET base == [ existing EXCEPT
                    !.encrypted_content = b64decode(backup_data.encrypted_content),
                    !.content_iv = backup_data.content_iv,
                    !.content_tag = backup_data.content_tag,
                    !.updated_at = backup_data.updated_at,
                    !.device_id = backup_data.device_id ]
    IN  IF Truthy(backup_data.encrypted_embedding)
        THEN [ base EXCEPT
                 !.encrypted_embedding =
                     Some(b64decode(backup_data.encrypted_embedding[1])),
                 !.embedding_iv = backup_data.embedding_iv ]
        ELSE base

(* Mutation: the create branch leaves out content_tag.                     *)
NewBackupRow_without_tag(user_id, backup_data) ==
    [ id |-> backup_data.id,
      user_id |-> user_id,
      encrypted_content |-> b64decode(backup_data.encrypted_content),
      content_iv |-> backup_data.content_iv,
      content_tag |-> None,
      encrypted_embedding |->
          IF Truthy(backup_data.encrypted_embedding)
          THEN Some(b64decode(backup_data.encrypted_embedding[1]))
          ELSE None,
      embedding_iv |-> backup_data.embedding_iv,
      created_at |-> backup_data.created_at,
      updated_at |-> backup_data.updated_at,
      device_id |-> backup_data.device_id ]

(* The EncryptedBackup row of the create branch.                           *)
NewBackupRow(user_id, backup_data) ==
    [ id |-> backup_data.id,
      user_id |-> user_id,
      encrypted_content |-> b64decode(backup_data.encrypted_content),
      content_iv |-> backup_data.content_iv,
      content_tag |-> backup_data.content_tag,
      encrypted_embedding |->
          IF Truthy(backup_data.encrypted_embedding)
          THEN Some(b64decode(backup_data.encrypted_embedding[1]))
          ELSE None,
      embedding_iv |-> backup_data.embedding_iv,
      created_at |-> backup_data.created_at,
      updated_at |-> backup_data.updated_at,
      device_id |-> backup_data.device_id ]

(* db.commit() of a modified, loaded row: the UPDATE sets the columns      *)
(* whose value differs from the loaded one, on the row with that primary   *)
(* key as the table holds it at commit time.                               *)
FlushedRow(current, loaded, modified) ==
    [ f \in DOMAIN current |->
        IF modified[f] # loaded[f] THEN modified[f] ELSE current[f] ]

(* store_encrypted_backup from the point where `existing` has been read.   *)
(* Result: the tables afterwards, the returned pair, and whether the       *)
(* commit raised (a primary-key collision on INSERT, or an UPDATE that     *)
(* matches no row).                                                        *)
store_encrypted_backup(backups, conflicts, user_id, backup_data, existing, now) ==
    LET unchanged(raised) ==
            [ backups |-> backups, conflicts |-> conflicts,
              backup |-> None, conflict |-> None, raised |-> raised ]
    IN  IF existing # None
        THEN IF detect_conflict(backup_data, existing[1])
             THEN LET made == create_conflict_record(conflicts, user_id,
                                  backup_data.id, backup_data, existing[1], now)
                  IN  [ backups |-> backups, conflicts |-> made.conflicts,
                        backup |-> None, conflict |-> Some(made.conflict),
                        raised |-> FALSE ]
             ELSE LET held == RowWithId(backups, existing[1].id)
                  IN  IF held = {} THEN unchanged(TRUE)
                      ELSE LET current == CHOOSE r \in held : TRUE
                               row == FlushedRow(current, existing[1],
                                          OverwriteFields(existing[1], backup_data))
                           IN  [ backups |-> (backups \ { current }) \cup { row },
                                 conflicts |-> conflicts,
                                 backup |-> Some(row), conflict |-> None,
                                 raised |-> FALSE ]
        ELSE IF RowWithId(backups, backup_data.id) # {} THEN unchanged(TRUE)
             ELSE LET row == NewBackupRow(user_id, backup_data)
                  IN  [ backups |-> backups \cup { row }, conflicts |-> conflicts,
                        backup |-> Some(row), conflict |-> None, raised |-> FALSE ]

(* Every order the database may return `rows` in under ORDER BY column:    *)
(* rows with equal keys come in either order.                              *)
OrderedBy(rows, column, descending) ==
    { s \in [ 1..Cardinality(rows) -> rows ] :
        /\ \A i, j \in DOMAIN s : i # j => s[i] # s[j]
        /\ \A i, j \in DOMAIN s :
             i < j => IF descending THEN s[i][column] >= s[j][column]
                                    ELSE s[i][column] <= s[j][column] }

Limit(s, limit) == SubSeq(s, 1, IF Len(s) < limit THEN Len(s) ELSE limit)

(* The result lists fetch_backups_since may return.  `if exclude_device_id` *)
(* is false for None and for the empty string.                             *)
fetch_backups_since(backups, user_id, since_timestamp, exclude_device_id, limit) ==
    LET owned == { r \in backups : r.user_id = user_id }
        after == IF since_timestamp # None
                 THEN { r \in owned : r.updated_at > since_timestamp[1] }
                 ELSE owned
        others == IF exclude_device_id # None
                     /\ exclude_device_id[1] # EmptyDeviceId
                  THEN { r \in after : r.device_id # exclude_device_id[1] }
                  ELSE after
    IN  { Limit(s, limit) : s \in OrderedBy(others, "updated_at", FALSE) }

(* Mutation: the row is looked up by id alone.                             *)
delete_backup_any_owner(backups, backup_id, user_id) ==
    LET backup == First(RowWithId(backups, backup_id))
    IN  IF backup = None
        THEN [ backups |-> backups, deleted |-> FALSE ]
        ELSE [ backups |-> backups \ { backup[1] }, deleted |-> TRUE ]

delete_backup(backups, backup_id, user_id) ==
    LET backup == First(BackupsOf(backups, backup_id, user_id))
    IN  IF backup = None
        THEN [ backups |-> backups, deleted |-> FALSE ]
        ELSE [ backups |-> backups \ { backup[1] }, deleted |-> TRUE ]

(* Mutation: the listing leaves out the filter on resolved.                *)
get_unresolved_conflicts_all(conflicts, user_id) ==
    OrderedBy({ c \in conflicts : c.user_id = user_id }, "detected_at", TRUE)

(* The result lists get_unresolved_conflicts may return.                   *)
get_unresolved_conflicts(conflicts, user_id) ==
    LET open == { c \in conflicts : c.user_id = user_id /\ c.resolved = FALSE }
    IN  OrderedBy(open, "detected_at", TRUE)

(* ConflictResolution.model_dump() as resolve_conflict receives it.        *)
Resolution(chosen, content, iv, embedding, embedding_iv) ==
    [ chosen_version |-> chosen,
      final_encrypted_content |-> content,
      final_iv |-> iv,
      final_encrypted_embedding |-> embedding,
      final_embedding_iv |-> embedding_iv ]

MergedBytes == << 77, 78 >>
MergedEmbeddingBytes == << 79 >>

Resolutions ==
    { Resolution(c, None, None, None, None) : c \in { "local", "remote" } }
    \cup
    { Resolution("merged", content, iv, None, None) :
        content \in { None, Some(<< >>), Some(b64encode(MergedBytes)) },
        iv \in { None, Some(<< 30 >>) } }
    \cup
    { Resolution("merged", Some(b64encode(MergedBytes)), Some(<< 30 >>),
                 Some(b64encode(MergedEmbeddingBytes)), Some(<< 31 >>)) }

(* Mutation: choosing local leaves the device of the stored row, and      *)
(* choosing remote writes the conflict's remote version back.              *)
ResolvedFields_swapped(backup, conflict, resolution, now) ==
    IF resolution.chosen_version = "local"
    THEN [ backup EXCEPT
             !.encrypted_content = conflict.local_encrypted_content,
             !.content_iv = conflict.local_iv,
             !.updated_at = conflict.local_updated_at ]
    ELSE IF resolution.chosen_version = "remote"
    THEN [ backup EXCEPT
             !.encrypted_content = conflict.remote_encrypted_content,
             !.content_iv = conflict.remote_iv,
             !.updated_at = conflict.remote_updated_at,
             !.device_id = conflict.remote_device_id ]
    ELSE [ backup EXCEPT
             !.encrypted_content =
                 b64decode(resolution.final_encrypted_content[1]),
             !.content_iv = resolution.final_iv[1],
             !.updated_at = now ]

(* The attribute assignments resolve_conflict makes on the loaded backup.  *)
ResolvedFields(backup, conflict, resolution, now) ==
    IF resolution.chosen_version = "local"
    THEN [ backup EXCEPT
             !.encrypted_content = conflict.local_encrypted_content,
             !.content_iv = conflict.local_iv,
             !.updated_at = conflict.local_updated_at,
             !.device_id = conflict.local_device_id ]
    ELSE IF resolution.chosen_version = "remote"
    THEN backup
    ELSE LET base == [ backup EXCEPT
                         !.encrypted_content =
                             b64decode(resolution.final_encrypted_content[1]),
                         !.content_iv = resolution.final_iv[1],
                         !.updated_at = now ]
         IN  IF Truthy(resolution.final_encrypted_embedding)
             THEN [ base EXCEPT
                      !.encrypted_embedding =
                          Some(b64decode(resolution.final_encrypted_embedding[1])),
                      !.embedding_iv = resolution.final_embedding_iv ]
             ELSE base

(* Mutation: the conflict is marked resolved before the target is looked   *)
(* up.                                                                     *)
resolve_conflict_marks_first(backups, conflicts, conflict_id, user_id, resolution, now, later) ==
    LET conflict == First({ c \in conflicts :
                              c.id = conflict_id /\ c.user_id = user_id })
    IN  IF conflict = None
        THEN [ backups |-> backups, conflicts |-> conflicts,
               backup |-> None, raised |-> FALSE ]
        ELSE LET backup == First(BackupsOf(backups, conflict[1].log_id, user_id))
                 marked == [ conflict[1] EXCEPT
                               !.resolved = TRUE,
                               !.resolved_at = Some(later) ]
                 rows == IF backup = None THEN backups
                         ELSE (backups \ { backup[1] }) \cup
                              { ResolvedFields(backup[1], conflict[1],
                                               resolution, now) }
             IN  [ backups |-> rows,
                   conflicts |-> (conflicts \ { conflict[1] }) \cup { marked },
                   backup |-> IF backup = None THEN None
                              ELSE Some(ResolvedFields(backup[1], conflict[1],
                                                       resolution, now)),
                   raised |-> FALSE ]


(* resolve_conflict: the tables afterwards, the returned backup (None     *)
(* when the conflict or its backup is not found) and whether it raised: a  *)
(* merged resolution without content fails in b64decode, one without IV    *)
(* violates NOT NULL on content_iv at commit.  `now` is the clock when a   *)
(* merged version is written, `later` when the conflict is marked.         *)
resolve_conflict(backups, conflicts, conflict_id, user_id, resolution, now, later) ==
    LET conflict == First({ c \in conflicts :
                              c.id = conflict_id /\ c.user_id = user_id })
        unchanged(raised) ==
            [ backups |-> backups, conflicts |-> conflicts,
              backup |-> None, raised |-> raised ]
    IN  IF conflict = None THEN unchanged(FALSE)
        ELSE LET backup == First(BackupsOf(backups, conflict[1].log_id, user_id))
             IN  IF backup = None THEN unchanged(FALSE)
                 ELSE IF /\ resolution.chosen_version = "merged"
                         /\ \/ resolution.final_encrypted_content = None
                            \/ resolution.final_iv = None
                 THEN unchanged(TRUE)
                 ELSE LET row == ResolvedFields(backup[1], conflict[1],
                                                resolution, now)
                          marked == [ conflict[1] EXCEPT
                                        !.resolved = TRUE,
                                        !.resolved_at = Some(later) ]
                      IN  [ backups |-> (backups \ { backup[1] }) \cup { row },
                            conflicts |->
                                (conflicts \ { conflict[1] }) \cup { marked },
                            backup |-> Some(row), raised |-> FALSE ]

(* ------------------------------ state --------------------------------- *)
(* What a ConflictVersion shows of a backup row.                           *)
ConflictVersion(row) ==
    [ encrypted_content |-> row.encrypted_content,
      iv |-> row.content_iv,
      updated_at |-> row.updated_at,
      device_id |-> row.device_id ]

LoadedVersion(existing) ==
    IF existing = None THEN None ELSE Some(ConflictVersion(existing[1]))

Response(op, user_id, status, request, loaded, returned) ==
    [ op |-> op, user_id |-> user_id, status |-> status,
      request |-> request, loaded |-> loaded, returned |-> returned ]

(* A request worker's push: idle, between the query and the write, or     *)
(* answered.                                                               *)
Push(pc, user_id, backup_data, existing, status) ==
    [ pc |-> pc, user_id |-> user_id, backup_data |-> backup_data,
      existing |-> existing, status |-> status ]

IdlePush == Push("idle", 0, None, None, 0)

(* No push in flight; before holds the tables as the first push found     *)
(* them.                                                                   *)
NoPushes ==
    [ before |-> {}, worker |-> [ w \in Workers |-> IdlePush ] ]

(* Empty tables.  One user has opted into full sync; the others are at    *)
(* the default tier.                                                       *)
Init ==
    /\ encrypted_backups = {}
    /\ sync_conflicts = {}
    /\ privacy_tier = [ u \in Users |->
                          IF u = 1 THEN "full_sync" ELSE "local_only" ]
    /\ clock = MaxTime
    /\ last = Response("none", 0, 0, None, None, None)
    /\ inflight = NoPushes
    /\ encrypted_metrics = {}

(* Empty tables, every user opted into full sync.                          *)
InitShared ==
    /\ encrypted_backups = {}
    /\ sync_conflicts = {}
    /\ privacy_tier = [ u \in Users |-> "full_sync" ]
    /\ clock = MaxTime
    /\ last = Response("none", 0, 0, None, None, None)
    /\ inflight = NoPushes
    /\ encrypted_metrics = {}

(* --------------------------- /users endpoints ------------------------- *)
TierLevel(tier) ==
    IF tier = "local_only" THEN 0 ELSE IF tier = "analytics_sync" THEN 1 ELSE 2

(* PUT /users/me/privacy: no direct downgrade, and a key for the sync      *)
(* tiers.                                                                  *)
update_privacy_tier(u, new_tier, has_key) ==
    LET request == [ privacy_tier |-> new_tier, he_public_key |-> has_key ]
    IN  IF TierLevel(new_tier) < TierLevel(privacy_tier[u])
           \/ (new_tier # "local_only" /\ ~ has_key)
        THEN /\ last' = Response("update_privacy_tier", u, 400, request, None, None)
             /\ UNCHANGED << encrypted_backups, sync_conflicts, privacy_tier, clock,
                          inflight, encrypted_metrics >>
        ELSE /\ privacy_tier' = [ privacy_tier EXCEPT ![u] = new_tier ]
             /\ last' = Response("update_privacy_tier", u, 200, request, None, None)
             /\ UNCHANGED << encrypted_backups, sync_conflicts, clock, inflight, encrypted_metrics >>

(* Mutation: the revoke leaves the metrics in place.                       *)
revoke_cloud_sync_keeps_metrics(u) ==
    LET backups == { r \in encrypted_backups : r.user_id = u }
    IN  /\ encrypted_backups' = encrypted_backups \ backups
        /\ privacy_tier' = [ privacy_tier EXCEPT ![u] = "local_only" ]
        /\ last' = Response("revoke", u, 200, None, None,
                            [ deleted_metrics |-> 0,
                              deleted_backups |-> Cardinality(backups),
                              new_tier |-> "local_only" ])
        /\ UNCHANGED << encrypted_metrics, sync_conflicts, clock, inflight >>

(* DELETE /users/me/privacy/revoke: the two bulk deletes and the tier      *)
(* reset are committed together.                                           *)
revoke_cloud_sync(u) ==
    LET metrics == { m \in encrypted_metrics : m.user_id = u }
        backups == { r \in encrypted_backups : r.user_id = u }
    IN  /\ encrypted_metrics' = encrypted_metrics \ metrics
        /\ encrypted_backups' = encrypted_backups \ backups
        /\ privacy_tier' = [ privacy_tier EXCEPT ![u] = "local_only" ]
        /\ last' = Response("revoke", u, 200, None, None,
                            [ deleted_metrics |-> Cardinality(metrics),
                              deleted_backups |-> Cardinality(backups),
                              new_tier |-> "local_only" ])
        /\ UNCHANGED << sync_conflicts, clock, inflight >>

(* ------------------------ /encryption endpoints ----------------------- *)
MetricIds == 1..MaxMetrics
FreeMetricIds == MetricIds \ { m.id : m \in encrypted_metrics }

(* POST /encryption/metrics with a batch of one metric.                    *)
upload_encrypted_metrics(u) ==
    IF privacy_tier[u] = "local_only"
    THEN /\ last' = Response("metrics", u, 403, None, None, None)
         /\ UNCHANGED << encrypted_backups, sync_conflicts, privacy_tier, clock,
                         inflight, encrypted_metrics >>
    ELSE /\ FreeMetricIds # {}
         /\ encrypted_metrics' = encrypted_metrics \cup
               { [ id |-> CHOOSE i \in FreeMetricIds :
                            \A j \in FreeMetricIds : i <= j,
                   user_id |-> u,
                   encrypted_value |-> b64decode(b64encode(ContentBytes(1))) ] }
         /\ last' = Response("metrics", u, 201, None, None, None)
         /\ UNCHANGED << encrypted_backups, sync_conflicts, privacy_tier, clock,
                         inflight >>

(* --------------------------- /sync endpoints -------------------------- *)
(* POST /sync/backup *)
upload_encrypted_backup(u, backup_data) ==
    IF privacy_tier[u] # "full_sync"
    THEN /\ last' = Response("upload", u, 403, backup_data, None, None)
         /\ UNCHANGED << encrypted_backups, sync_conflicts, privacy_tier, clock,
                          inflight, encrypted_metrics >>
    ELSE LET existing == First(BackupsOf(encrypted_backups, backup_data.id, u))
             conflicting == existing # None
                            /\ detect_conflict(backup_data, existing[1])
         IN  /\ conflicting => FreeConflictIds(sync_conflicts) # {}
             /\ \E now \in (IF conflicting THEN UtcNow ELSE { clock }) :
                  LET res == store_encrypted_backup(encrypted_backups,
                                 sync_conflicts, u, backup_data, existing, now)
                  IN  /\ encrypted_backups' = res.backups
                      /\ sync_conflicts' = res.conflicts
                      /\ clock' = now
                      /\ last' =
                           IF res.raised
                           THEN Response("upload", u, 500, backup_data,
                                         LoadedVersion(existing), None)
                           ELSE IF res.conflict # None
                           THEN Response("upload", u, 409, backup_data,
                                         LoadedVersion(existing), res.conflict)
                           ELSE Response("upload", u, 201, backup_data,
                                         LoadedVersion(existing), res.backup)
             /\ UNCHANGED << privacy_tier, inflight, encrypted_metrics >>

(* Mutation: has_more only when the page overflows.                        *)
has_more_beyond(backups, limit) == Len(backups) > limit

has_more(backups, limit) == Len(backups) = limit

(* GET /sync/backups *)
fetch_encrypted_backups(u, since, device_id, limit) ==
    LET request == [ since |-> since, device_id |-> device_id, limit |-> limit ]
    IN  /\ IF privacy_tier[u] # "full_sync"
           THEN last' = Response("fetch", u, 403, request, None, None)
           ELSE \E backups \in fetch_backups_since(encrypted_backups, u, since,
                                                   device_id, limit) :
                  last' = Response("fetch", u, 200, request, None,
                                   [ backups |-> backups,
                                     has_more |-> has_more(backups, limit),
                                     total_count |-> Len(backups) ])
        /\ UNCHANGED << encrypted_backups, sync_conflicts, privacy_tier, clock,
                          inflight, encrypted_metrics >>

(* DELETE /sync/backup/{backup_id} *)
delete_encrypted_backup(u, backup_id) ==
    LET res == delete_backup(encrypted_backups, backup_id, u)
    IN  /\ encrypted_backups' = res.backups
        /\ last' = Response("delete", u, IF res.deleted THEN 200 ELSE 404,
                            backup_id, None, None)
        /\ UNCHANGED << sync_conflicts, privacy_tier, clock, inflight, encrypted_metrics >>

(* GET /sync/conflicts *)
get_sync_conflicts(u) ==
    /\ IF privacy_tier[u] # "full_sync"
       THEN last' = Response("conflicts", u, 403, None, None, None)
       ELSE \E conflicts \in get_unresolved_conflicts(sync_conflicts, u) :
              last' = Response("conflicts", u, 200, None, None,
                               [ conflicts |-> conflicts,
                                 total_count |-> Len(conflicts) ])
    /\ UNCHANGED << encrypted_backups, sync_conflicts, privacy_tier, clock,
                          inflight, encrypted_metrics >>

(* Mutation: the check fires only when both fields are missing.            *)
MergedFieldsMissing_both(resolution) ==
    /\ resolution.chosen_version = "merged"
    /\ ~ Truthy(resolution.final_encrypted_content)
    /\ ~ Truthy(resolution.final_iv)

(* The endpoint's check of a merged resolution, before any lookup.         *)
MergedFieldsMissing(resolution) ==
    /\ resolution.chosen_version = "merged"
    /\ \/ ~ Truthy(resolution.final_encrypted_content)
       \/ ~ Truthy(resolution.final_iv)

(* POST /sync/conflicts/{conflict_id}/resolve *)
resolve_sync_conflict(u, conflict_id, resolution) ==
    LET request == [ conflict_id |-> conflict_id,
                     chosen_version |-> resolution.chosen_version ]
    IN  IF MergedFieldsMissing(resolution)
        THEN /\ last' = Response("resolve", u, 422, request, None, None)
             /\ UNCHANGED << encrypted_backups, sync_conflicts, privacy_tier, clock,
                          inflight, encrypted_metrics >>
        ELSE \E now \in UtcNow : \E later \in { t \in Times : t >= now } :
               LET res == resolve_conflict(encrypted_backups, sync_conflicts,
                              conflict_id, u, resolution, now, later)
               IN  /\ encrypted_backups' = res.backups
                   /\ sync_conflicts' = res.conflicts
                   /\ clock' = IF res.backup = None THEN clock ELSE later
                   /\ res.backup = None => now = clock /\ later = clock
                   /\ resolution.chosen_version # "merged" => now = later
                   /\ last' =
                        IF res.raised
                        THEN Response("resolve", u, 500, request, None, None)
                        ELSE IF res.backup = None
                        THEN Response("resolve", u, 404, request, None, None)
                        ELSE Response("resolve", u, 200, request, None, res.backup)
                   /\ UNCHANGED << privacy_tier, inflight, encrypted_metrics >>

Fetches ==
    { << f[1], f[2], limit >> :
        f \in { << None, None >>, << Some(1), Some(1) >> },
        limit \in 1..NumIds }

Next ==
    \/ \E u \in Users, backup_data \in Candidates :
         upload_encrypted_backup(u, backup_data)
    \/ \E u \in Users, f \in Fetches :
         fetch_encrypted_backups(u, f[1], f[2], f[3])
    \/ \E u \in Users, backup_id \in Ids :
         delete_encrypted_backup(u, backup_id)
    \/ \E u \in Users :
         get_sync_conflicts(u)
    \/ \E u \in Users, conflict_id \in ConflictIds, resolution \in Resolutions :
         resolve_sync_conflict(u, conflict_id, resolution)

Spec == Init /\ [][Next]_vars

SpecShared == InitShared /\ [][Next]_vars

(* ---------------------- an open conflict at the start ----------------- *)
(* The state after the syncing user's first device created a record and a  *)
(* second device's push was rejected as a conflict at time 1; the clock    *)
(* still reads 1.                                                          *)
FirstPush == EncryptedBackupData(1, 1, 1, 1, 1)
RejectedPush == EncryptedBackupData(1, 2, 1, 2, 2)
EarlierConflictId == 0

InitListed ==
    /\ encrypted_backups = { NewBackupRow(1, FirstPush) }
    /\ sync_conflicts =
         { SyncConflictRow(EarlierConflictId, 1, FirstPush.id, RejectedPush,
                           NewBackupRow(1, FirstPush), 1) }
    /\ privacy_tier = [ u \in Users |->
                          IF u = 1 THEN "full_sync" ELSE "local_only" ]
    /\ clock = 1
    /\ last = Response("none", 0, 0, None, None, None)
    /\ inflight = NoPushes
    /\ encrypted_metrics = {}

SpecListed == InitListed /\ [][Next]_vars

(* --------------------------- fetching pages --------------------------- *)
(* Stores of up to NumFetchIds records of several owners, times and        *)
(* devices, the device with the empty id among them, and fetches over      *)
(* them; every user has opted into full sync.                              *)
FetchIds == 1..NumFetchIds
FetchDevices == 0..(NumDevices - 1)

StoredRecords(id) ==
    { NewBackupRow(u, EncryptedBackupData(id, 1, 1, t, d)) :
        u \in Users, t \in Times, d \in FetchDevices }

(* At most one record per id: id is the primary key.                       *)
Stores ==
    UNION { { { pick[id] : id \in held } :
                pick \in { f \in [ held -> UNION { StoredRecords(id) :
                                                     id \in held } ] :
                              \A id \in held : f[id].id = id } } :
            held \in SUBSET FetchIds }

InitFetch ==
    /\ encrypted_backups \in Stores
    /\ sync_conflicts = {}
    /\ privacy_tier = [ u \in Users |-> "full_sync" ]
    /\ clock = MaxTime
    /\ last = Response("none", 0, 0, None, None, None)
    /\ inflight = NoPushes
    /\ encrypted_metrics = {}

NextFetch ==
    \E u \in Users, since \in { None } \cup { Some(t) : t \in Times },
       device_id \in { None } \cup { Some(d) : d \in FetchDevices },
       limit \in 1..NumFetchIds :
        fetch_encrypted_backups(u, since, device_id, limit)

SpecFetch == InitFetch /\ [][NextFetch]_vars

(* A client pages through its records: it fetches without a cursor and,    *)
(* while the answer says has_more, fetches again with the largest          *)
(* updated_at it received as the cursor, the limit and the excluded        *)
(* device being fixed.  The sets of records it may end with, the store     *)
(* staying as it is.                                                       *)
LastCursor(page) == Some(page[Len(page)].updated_at)

RECURSIVE Paginate(_, _, _, _, _, _)
Paginate(backups, user_id, since, device_id, limit, received) ==
    UNION { LET got == received \cup { page[i] : i \in DOMAIN page }
            IN  IF has_more(page, limit)
                THEN Paginate(backups, user_id, LastCursor(page), device_id,
                              limit, got)
                ELSE { got } :
            page \in fetch_backups_since(backups, user_id, since, device_id,
                                         limit) }

(* The fetches of one paging client, up to the answer without has_more.    *)
fetch_all_pages(u, device_id, limit) ==
    /\ privacy_tier[u] = "full_sync"
    /\ \E received \in Paginate(encrypted_backups, u, None, device_id, limit, {}) :
         last' = Response("pages", u, 200,
                          [ since |-> None, device_id |-> device_id,
                            limit |-> limit ],
                          None, received)
    /\ UNCHANGED << encrypted_backups, sync_conflicts, privacy_tier, clock,
                    inflight, encrypted_metrics >>

(* The client excludes no device or a device with a non-empty id.          *)
NextPages ==
    \E u \in Users,
       device_id \in { None } \cup
                     { Some(d) : d \in FetchDevices \ { EmptyDeviceId } },
       limit \in 1..NumFetchIds :
        fetch_all_pages(u, device_id, limit)

SpecPages == InitFetch /\ [][NextPages]_vars

(* ----------------------- revoking the cloud sync ---------------------- *)
(* Stores of records of both users, everyone opted into full sync; users   *)
(* upload metrics, change their tier and revoke.                           *)
InitRevoke ==
    /\ encrypted_backups \in
         { st \in Stores : \A r \in st : r.updated_at = 1 /\ r.device_id = 1 }
    /\ sync_conflicts = {}
    /\ privacy_tier = [ u \in Users |-> "full_sync" ]
    /\ clock = MaxTime
    /\ last = Response("none", 0, 0, None, None, None)
    /\ inflight = NoPushes
    /\ encrypted_metrics = {}

NextRevoke ==
    \/ \E u \in Users : upload_encrypted_metrics(u)
    \/ \E u \in Users, new_tier \in Tiers, has_key \in BOOLEAN :
         update_privacy_tier(u, new_tier, has_key)
    \/ \E u \in Users : revoke_cloud_sync(u)

SpecRevoke == InitRevoke /\ [][NextRevoke]_vars

(* ------------------------- the conflict detector ---------------------- *)
(* store_encrypted_backup hands detect_conflict the candidate and the row  *)
(* its query for the candidate's id returned.                              *)
apply_detect_conflict(backup_data, existing) ==
    /\ last' = Response("detect", existing.user_id, 0, backup_data,
                        Some(ConflictVersion(existing)),
                        Some(detect_conflict(backup_data, existing)))
    /\ UNCHANGED << encrypted_backups, sync_conflicts, privacy_tier, clock,
                    inflight, encrypted_metrics >>

NextDetect ==
    \E backup_data \in Candidates, stored \in Candidates, u \in Users :
        /\ stored.id = backup_data.id
        /\ apply_detect_conflict(backup_data, NewBackupRow(u, stored))

SpecDetect == Init /\ [][NextDetect]_vars

(* ------------------------ pushes in two workers ----------------------- *)
(* Each worker handles a request in a session of its own (get_db); the     *)
(* query of store_encrypted_backup and its commit are separate statements  *)
(* on the database, and another worker's commit may fall between them.     *)

(* One stored record of the syncing user, or none.                         *)
InitConc ==
    /\ encrypted_backups \in
         { {} } \cup { { NewBackupRow(1, c) } : c \in Candidates }
    /\ sync_conflicts = {}
    /\ privacy_tier = [ u \in Users |->
                          IF u = 1 THEN "full_sync" ELSE "local_only" ]
    /\ clock = MaxTime
    /\ last = Response("none", 0, 0, None, None, None)
    /\ inflight = [ NoPushes EXCEPT !.before = encrypted_backups ]
    /\ encrypted_metrics = {}

(* The tier gate and the query for the existing row.                       *)
PushRead(w, u, backup_data) ==
    /\ inflight.worker[w].pc = "idle"
    /\ IF privacy_tier[u] # "full_sync"
       THEN /\ inflight' = [ inflight EXCEPT !.worker[w] =
                                Push("done", u, backup_data, None, 403) ]
            /\ last' = Response("upload", u, 403, backup_data, None, None)
       ELSE /\ inflight' = [ inflight EXCEPT !.worker[w] =
                                Push("loaded", u, backup_data,
                                     First(BackupsOf(encrypted_backups,
                                                     backup_data.id, u)), 0) ]
            /\ UNCHANGED last
    /\ UNCHANGED << encrypted_backups, sync_conflicts, privacy_tier, clock,
                    encrypted_metrics >>

(* The decision on the row as it was read, the write and the commit.       *)
PushWrite(w) ==
    LET p == inflight.worker[w]
        conflicting == p.existing # None
                       /\ detect_conflict(p.backup_data, p.existing[1])
    IN  /\ p.pc = "loaded"
        /\ conflicting => FreeConflictIds(sync_conflicts) # {}
        /\ \E now \in (IF conflicting THEN UtcNow ELSE { clock }) :
             LET res == store_encrypted_backup(encrypted_backups,
                            sync_conflicts, p.user_id, p.backup_data,
                            p.existing, now)
                 status == IF res.raised THEN 500
                           ELSE IF res.conflict # None THEN 409 ELSE 201
             IN  /\ encrypted_backups' = res.backups
                 /\ sync_conflicts' = res.conflicts
                 /\ clock' = now
                 /\ inflight' = [ inflight EXCEPT !.worker[w] =
                                    [ p EXCEPT !.pc = "done",
                                               !.status = status ] ]
                 /\ last' = Response("upload", p.user_id, status,
                                     p.backup_data, LoadedVersion(p.existing),
                                     IF res.raised THEN None
                                     ELSE IF res.conflict # None
                                     THEN res.conflict ELSE res.backup)
        /\ UNCHANGED << privacy_tier, encrypted_metrics >>

NextConc ==
    \/ \E w \in Workers, u \in Users, backup_data \in Candidates :
         PushRead(w, u, backup_data)
    \/ \E w \in Workers : PushWrite(w)

SpecConc == InitConc /\ [][NextConc]_vars

(* Pushes in the workers while the owner revokes the cloud sync in another *)
(* request.                                                                *)
NextPurge ==
    \/ \E w \in Workers, u \in Users, backup_data \in Candidates :
         PushRead(w, u, backup_data)
    \/ \E w \in Workers : PushWrite(w)
    \/ \E u \in Users : revoke_cloud_sync(u)

SpecPurge == InitConc /\ [][NextPurge]_vars

(* An owner with an open conflict pushes, revokes the cloud sync and opts  *)
(* in again.                                                               *)
NextForget ==
    \/ \E u \in Users, backup_data \in Candidates :
         upload_encrypted_backup(u, backup_data)
    \/ \E u \in Users : revoke_cloud_sync(u)
    \/ \E u \in Users, new_tier \in Tiers, has_key \in BOOLEAN :
         update_privacy_tier(u, new_tier, has_key)

SpecForget == InitListed /\ [][NextForget]_vars

(* ------------------- pushes carrying another created_at --------------- *)
(* The syncing user's devices push candidates whose created_at varies, and *)
(* the user resolves conflicts and deletes records.                        *)
CandidatesCreated ==
    { EncryptedBackupData(id, p, c, t, d) :
        id \in Ids, p \in Payloads, c \in 1..MaxCreatedAt, t \in Times,
        d \in Devices }

NextCreated ==
    \/ \E backup_data \in CandidatesCreated :
         upload_encrypted_backup(1, backup_data)
    \/ \E conflict_id \in ConflictIds, resolution \in Resolutions :
         resolve_sync_conflict(1, conflict_id, resolution)
    \/ \E backup_id \in Ids :
         delete_encrypted_backup(1, backup_id)

SpecCreated == Init /\ [][NextCreated]_vars

(* ------------------ pushes while a conflict is open ------------------- *)
(* From the state with an open conflict, the syncing user's devices push   *)
(* further versions of the record and the user resolves the earlier and    *)
(* the later conflicts.  The later versions are none of the two versions   *)
(* the open conflict holds.                                                *)
CandidatesLate ==
    { EncryptedBackupData(id, p, c, t, d) :
        id \in Ids, p \in (NumPayloads + 1)..NumLatePayloads,
        c \in 1..MaxCreated, t \in Times, d \in Devices }

NextLate ==
    \/ \E backup_data \in CandidatesLate :
         upload_encrypted_backup(1, backup_data)
    \/ \E conflict_id \in { EarlierConflictId } \cup ConflictIds,
          resolution \in Resolutions :
         resolve_sync_conflict(1, conflict_id, resolution)

SpecLate == InitListed /\ [][NextLate]_vars

(* ====================== properties of the gateway ===================== *)
(* The owner's stored row for an id, as a set (empty or a singleton).      *)
Stored(u, id) == BackupsOf(encrypted_backups, id, u)

(* A conflict row holds candidate `c` as its local version and row `r` as  *)
(* its remote version.                                                     *)
HoldsBoth(conflict, u, c, r) ==
    /\ conflict.user_id = u
    /\ conflict.log_id = c.id
    /\ b64encode(conflict.local_encrypted_content) = c.encrypted_content
    /\ conflict.local_iv = c.content_iv
    /\ conflict.local_tag = c.content_tag
    /\ conflict.local_updated_at = c.updated_at
    /\ conflict.local_device_id = c.device_id
    /\ conflict.remote_encrypted_content = r.encrypted_content
    /\ conflict.remote_iv = r.content_iv
    /\ conflict.remote_tag = r.content_tag
    /\ conflict.remote_updated_at = r.updated_at
    /\ conflict.remote_device_id = r.device_id

(* C1: a push to an existing record from another device with another       *)
(* updatedAt is rejected as a conflict (no record returned, the conflict   *)
(* returned), persists exactly one new ConflictRecord holding the          *)
(* candidate as local and the stored record as remote version, and leaves  *)
(* the stored record as it was.                                            *)
C1_ConflictTrigger ==
    [][ LET u == last'.user_id
            c == last'.request
        IN  ( /\ last'.op = "upload"
              /\ upload_encrypted_backup(u, c)
              /\ \E r \in Stored(u, c.id) :
                   c.device_id # r.device_id /\ c.updated_at # r.updated_at )
            => /\ last'.status = 409
               /\ last'.returned # None
               /\ encrypted_backups' = encrypted_backups
               /\ \E made \in sync_conflicts' \ sync_conflicts :
                    /\ sync_conflicts' = sync_conflicts \cup { made }
                    /\ last'.returned = Some(made)
                    /\ made.resolved = FALSE
                    /\ \A r \in Stored(u, c.id) : HoldsBoth(made, u, c, r)
      ]_vars

C1_Witness ==
    /\ last.op = "upload"
    /\ last.status = 409
    /\ last.loaded # None
    /\ last.request.device_id # last.loaded[1].device_id
    /\ last.request.updated_at # last.loaded[1].updated_at
    /\ last.returned[1] \in sync_conflicts
    /\ Stored(last.user_id, last.request.id) # {}

(* The stored row carries the candidate's content, IV, auth tag, updatedAt *)
(* and deviceId; the content is compared as the client sent it.            *)
VersionIs(row, c) ==
    /\ b64encode(row.encrypted_content) = c.encrypted_content
    /\ row.content_iv = c.content_iv
    /\ row.content_tag = c.content_tag
    /\ row.updated_at = c.updated_at
    /\ row.device_id = c.device_id

(* C3 as stated: a push from another device with other content never      *)
(* replaces the stored version unless a ConflictRecord holding the         *)
(* candidate and the stored version is persisted.                          *)
C3_NoSilentDrop ==
    [][ LET u == last'.user_id
            c == last'.request
        IN  ( last'.op = "upload" /\ upload_encrypted_backup(u, c) )
            => \A r \in Stored(u, c.id) :
                 ( /\ c.device_id # r.device_id
                   /\ c.encrypted_content # b64encode(r.encrypted_content) )
                 => \/ r \in encrypted_backups'
                    \/ \E k \in sync_conflicts' : HoldsBoth(k, u, c, r)
      ]_vars

(* C3 amended: the same for a push from another device with other content  *)
(* whose updatedAt also differs from the stored updatedAt.                 *)
C3_NoSilentDropOtherTime ==
    [][ LET u == last'.user_id
            c == last'.request
        IN  ( last'.op = "upload" /\ upload_encrypted_backup(u, c) )
            => \A r \in Stored(u, c.id) :
                 ( /\ c.device_id # r.device_id
                   /\ c.encrypted_content # b64encode(r.encrypted_content)
                   /\ c.updated_at # r.updated_at )
                 => \/ r \in encrypted_backups'
                    \/ \E k \in sync_conflicts' : HoldsBoth(k, u, c, r)
      ]_vars

C3_Witness ==
    /\ last.op = "upload"
    /\ last.loaded # None
    /\ last.request.device_id # last.loaded[1].device_id
    /\ last.request.updated_at # last.loaded[1].updated_at
    /\ last.request.encrypted_content # b64encode(last.loaded[1].encrypted_content)
    /\ \E r \in Stored(last.user_id, last.request.id) :
         /\ ConflictVersion(r) = last.loaded[1]
         /\ \E k \in sync_conflicts : HoldsBoth(k, last.user_id, last.request, r)

(* C5: a push from the stored device with a greater updatedAt is never a   *)
(* conflict, persists no ConflictRecord, and leaves the stored content,    *)
(* IV, auth tag, updatedAt and deviceId equal to the candidate's.          *)
C5_SameDeviceOverwrite ==
    [][ LET u == last'.user_id
            c == last'.request
        IN  ( /\ last'.op = "upload"
              /\ upload_encrypted_backup(u, c)
              /\ \E r \in Stored(u, c.id) :
                   c.device_id = r.device_id /\ c.updated_at > r.updated_at )
            => /\ last'.status = 201
               /\ sync_conflicts' = sync_conflicts
               /\ BackupsOf(encrypted_backups', c.id, u) # {}
               /\ \A r \in BackupsOf(encrypted_backups', c.id, u) :
                    VersionIs(r, c) /\ last'.returned = Some(r)
      ]_vars

C5_Witness ==
    /\ last.op = "upload"
    /\ last.status = 201
    /\ last.loaded # None
    /\ last.request.device_id = last.loaded[1].device_id
    /\ last.request.updated_at > last.loaded[1].updated_at
    /\ last.request.encrypted_content # b64encode(last.loaded[1].encrypted_content)

(* C6: pushing again the candidate the owner's last, accepted push         *)
(* carried is no conflict, persists no ConflictRecord and leaves the       *)
(* stored record as it was.                                                *)
C6_IdempotentResend ==
    [][ LET u == last'.user_id
            c == last'.request
        IN  ( /\ last.op = "upload"
              /\ last.status = 201
              /\ last'.op = "upload"
              /\ u = last.user_id
              /\ c = last.request
              /\ upload_encrypted_backup(u, c) )
            => /\ last'.status = 201
               /\ sync_conflicts' = sync_conflicts
               /\ encrypted_backups' = encrypted_backups
      ]_vars

C6_Witness ==
    /\ last.op = "upload"
    /\ last.status = 201
    /\ last.loaded # None
    /\ last.request.device_id = last.loaded[1].device_id
    /\ last.request.updated_at = last.loaded[1].updated_at
    /\ last.request.encrypted_content = b64encode(last.loaded[1].encrypted_content)
    /\ last.request.content_iv = last.loaded[1].iv

(* The owner's conflict row with this id, as a set.                        *)
ConflictOf(u, conflict_id) ==
    { k \in sync_conflicts : k.id = conflict_id /\ k.user_id = u }

(* C8: resolving an existing conflict whose target exists with local makes *)
(* the record's content, IV, deviceId and updatedAt those of the           *)
(* conflict's localVersion, marks the conflict resolved with resolvedAt    *)
(* set, and returns the resulting record.                                  *)
C8_ResolveLocal ==
    [][ LET u == last'.user_id
            id == last'.request.conflict_id
        IN  ( /\ last'.op = "resolve"
              /\ last'.request.chosen_version = "local"
              /\ \E res \in Resolutions :
                   /\ res.chosen_version = "local"
                   /\ resolve_sync_conflict(u, id, res) )
            => \A k \in ConflictOf(u, id) :
                 Stored(u, k.log_id) # {}
                 => /\ last'.status = 200
                    /\ \E r \in BackupsOf(encrypted_backups', k.log_id, u) :
                         /\ r.encrypted_content = k.local_encrypted_content
                         /\ r.content_iv = k.local_iv
                         /\ r.device_id = k.local_device_id
                         /\ r.updated_at = k.local_updated_at
                         /\ last'.returned = Some(r)
                    /\ \E k2 \in sync_conflicts' :
                         /\ k2.id = id
                         /\ k2.resolved = TRUE
                         /\ k2.resolved_at # None
      ]_vars

C8_Witness ==
    /\ last.op = "resolve"
    /\ last.status = 200
    /\ last.request.chosen_version = "local"
    /\ \E k \in ConflictOf(last.user_id, last.request.conflict_id) :
         /\ k.resolved
         /\ last.returned[1].device_id = k.local_device_id
         /\ last.returned[1].device_id # k.remote_device_id
         /\ last.returned[1] \in encrypted_backups

(* C9: resolving with remote leaves every field of the target record as it *)
(* was; the only change of state is that the conflict becomes resolved,    *)
(* with resolvedAt set.                                                    *)
C9_ResolveRemote ==
    [][ LET u == last'.user_id
            id == last'.request.conflict_id
        IN  ( /\ last'.op = "resolve"
              /\ last'.request.chosen_version = "remote"
              /\ \E res \in Resolutions :
                   /\ res.chosen_version = "remote"
                   /\ resolve_sync_conflict(u, id, res) )
            => /\ encrypted_backups' = encrypted_backups
               /\ privacy_tier' = privacy_tier
               /\ \A k \in ConflictOf(u, id) :
                    Stored(u, k.log_id) # {}
                    => /\ last'.status = 200
                       /\ \E t \in Times :
                            sync_conflicts' =
                              (sync_conflicts \ { k }) \cup
                              { [ k EXCEPT !.resolved = TRUE,
                                           !.resolved_at = Some(t) ] }
      ]_vars

C9_Witness ==
    /\ last.op = "resolve"
    /\ last.status = 200
    /\ last.request.chosen_version = "remote"
    /\ \E k \in ConflictOf(last.user_id, last.request.conflict_id) :
         /\ k.resolved
         /\ last.returned[1] \in Stored(last.user_id, k.log_id)
         /\ last.returned[1].updated_at # k.remote_updated_at

(* A merged resolution that lacks finalContent or lacks finalIV.           *)
LacksMergedField(res) ==
    /\ res.chosen_version = "merged"
    /\ res.final_encrypted_content = None \/ res.final_iv = None

(* C10: a merged resolution that lacks finalContent or finalIV fails with  *)
(* 422 and changes nothing: the tables are as before, and a conflict that  *)
(* was unresolved is still listed as unresolved.                           *)
C10_MergedNeedsFields ==
    [][ LET u == last'.user_id
            id == last'.request.conflict_id
        IN  ( /\ last'.op = "resolve"
              /\ last'.request.chosen_version = "merged"
              /\ \E res \in Resolutions :
                   LacksMergedField(res) /\ resolve_sync_conflict(u, id, res) )
            => /\ last'.status = 422
               /\ encrypted_backups' = encrypted_backups
               /\ sync_conflicts' = sync_conflicts
               /\ \A k \in ConflictOf(u, id) :
                    k.resolved = FALSE
                    => \A listed \in get_unresolved_conflicts(sync_conflicts', u) :
                         \E i \in DOMAIN listed : listed[i] = k
      ]_vars

C10_Witness ==
    /\ last.op = "resolve"
    /\ last.status = 422
    /\ \E k \in ConflictOf(last.user_id, last.request.conflict_id) :
         /\ k.resolved = FALSE
         /\ Stored(last.user_id, k.log_id) # {}

(* The records a response carries.                                         *)
ReturnedRecords(resp) ==
    IF resp.status \notin { 200, 201, 409 } THEN {}
    ELSE IF resp.op = "fetch"
    THEN { resp.returned.backups[i] : i \in DOMAIN resp.returned.backups }
    ELSE IF resp.op = "conflicts"
    THEN { resp.returned.conflicts[i] : i \in DOMAIN resp.returned.conflicts }
    ELSE IF resp.op \in { "upload", "resolve" }
    THEN { resp.returned[1] }
    ELSE {}

OwnedBy(table, v) == { r \in table : r.user_id = v }

(* A delete or a resolve addressed at an id of a record of v.              *)
AddressedAt(resp, v) ==
    \/ /\ resp.op = "delete"
       /\ \E r \in OwnedBy(encrypted_backups, v) : r.id = resp.request
    \/ /\ resp.op = "resolve"
       /\ \E k \in OwnedBy(sync_conflicts, v) : k.id = resp.request.conflict_id

(* C4 as stated: a call made as u returns no record of another owner v,    *)
(* leaves v's BackupRecords and ConflictRecords as they were, and a delete *)
(* or resolve addressed at an id of v answers NotFound.                    *)
C4_OwnerIsolation ==
    [][ \A v \in Users \ { last'.user_id } :
          /\ OwnedBy(encrypted_backups', v) = OwnedBy(encrypted_backups, v)
          /\ OwnedBy(sync_conflicts', v) = OwnedBy(sync_conflicts, v)
          /\ \A r \in ReturnedRecords(last') : r.user_id # v
          /\ AddressedAt(last', v) => last'.status = 404
      ]_vars

(* C4 amended: the same, where a resolve addressed at an id of v answers   *)
(* NotFound or, for a merged resolution, the validation error 422, and     *)
(* either answer comes with no change of any table.                        *)
C4_OwnerIsolationOrInvalid ==
    [][ \A v \in Users \ { last'.user_id } :
          /\ OwnedBy(encrypted_backups', v) = OwnedBy(encrypted_backups, v)
          /\ OwnedBy(sync_conflicts', v) = OwnedBy(sync_conflicts, v)
          /\ \A r \in ReturnedRecords(last') : r.user_id # v
          /\ AddressedAt(last', v)
             => /\ \/ last'.status = 404
                   \/ /\ last'.status = 422
                      /\ last'.op = "resolve"
                      /\ last'.request.chosen_version = "merged"
                /\ encrypted_backups' = encrypted_backups
                /\ sync_conflicts' = sync_conflicts
      ]_vars

C4_Witness ==
    /\ last.op = "resolve"
    /\ last.status = 404
    /\ \E v \in Users \ { last.user_id } :
         /\ \E k \in OwnedBy(sync_conflicts, v) :
              k.id = last.request.conflict_id /\ k.resolved = FALSE
         /\ OwnedBy(encrypted_backups, v) # {}
    /\ OwnedBy(encrypted_backups, last.user_id) = {}

(* A conflict row without the columns the database fills in.               *)
Persisted(conflict) ==
    [ f \in DOMAIN conflict \ { "id", "detected_at" } |-> conflict[f] ]

(* The tables as a pair of the backups and the conflict records made.      *)
Outcome(backups, conflicts) ==
    [ backups |-> backups,
      made |-> { Persisted(k) : k \in conflicts },
      count |-> Cardinality(conflicts) ]

(* A push run alone on an outcome: query, decision and write together.     *)
PushAlone(o, p) ==
    LET existing == First(BackupsOf(o.backups, p.backup_data.id, p.user_id))
        res == store_encrypted_backup(o.backups, {}, p.user_id,
                                      p.backup_data, existing, clock)
    IN  [ backups |-> res.backups,
          made |-> o.made \cup { Persisted(k) : k \in res.conflicts },
          count |-> o.count + Cardinality(res.conflicts) ]

OneAfterTheOther(p, q) ==
    PushAlone(PushAlone(Outcome(inflight.before, {}), p), q)

(* C2: when two pushes to the same (owner, id) have been handled by two    *)
(* workers, the stored records and the persisted conflict records are      *)
(* those of the two pushes run one after the other in some order.          *)
C2_PushesSerialize ==
    \A w1, w2 \in Workers :
        LET p == inflight.worker[w1]
            q == inflight.worker[w2]
        IN  ( /\ w1 < w2
              /\ p.pc = "done" /\ q.pc = "done"
              /\ p.status # 403 /\ q.status # 403
              /\ p.user_id = q.user_id
              /\ p.backup_data.id = q.backup_data.id )
            => Outcome(encrypted_backups, sync_conflicts)
                 \in { OneAfterTheOther(p, q), OneAfterTheOther(q, p) }

(* C7: detect_conflict answers conflict exactly when the candidate's       *)
(* updated_at differs from the stored one and its device_id differs from   *)
(* the stored one.                                                         *)
C7_DetectPolicy ==
    last.op = "detect"
    => ( last.returned[1]
         <=> ( /\ last.request.updated_at # last.loaded[1].updated_at
               /\ last.request.device_id # last.loaded[1].device_id ) )

C7_Witness ==
    /\ last.op = "detect"
    /\ last.returned[1] = FALSE
    /\ last.request.updated_at = last.loaded[1].updated_at
    /\ last.request.device_id # last.loaded[1].device_id
    /\ last.request.encrypted_content
         # b64encode(last.loaded[1].encrypted_content)

(* The conflicts a listing shows.                                          *)
Listed(listing) == { listing[i] : i \in DOMAIN listing }

Unresolved(conflicts, u) ==
    { k \in conflicts : k.user_id = u /\ k.resolved = FALSE }

(* C11: the list of unresolved conflicts holds exactly the owner's         *)
(* conflicts with resolved = FALSE, latest detected first; a conflict made *)
(* by a rejected push is listed, stays listed over every step except a     *)
(* resolve on it that succeeds, and a resolved conflict is never listed    *)
(* again.                                                                  *)
C11_UnresolvedListing ==
    [][ /\ ( last'.op = "conflicts" /\ last'.status = 200 )
           => LET listing == last'.returned.conflicts
              IN  /\ Listed(listing) = Unresolved(sync_conflicts, last'.user_id)
                  /\ Len(listing) = Cardinality(Listed(listing))
                  /\ \A i, j \in DOMAIN listing :
                       i < j => listing[i].detected_at >= listing[j].detected_at
        /\ ( last'.op = "upload" /\ last'.status = 409 )
           => \A listing \in get_unresolved_conflicts(sync_conflicts',
                                                      last'.user_id) :
                last'.returned[1] \in Listed(listing)
        /\ \A k \in sync_conflicts :
             \A listing \in get_unresolved_conflicts(sync_conflicts', k.user_id) :
               IF k.resolved
               THEN \A l \in Listed(listing) : l.id # k.id
               ELSE \/ k \in Listed(listing)
                    \/ /\ last'.op = "resolve"
                       /\ last'.status = 200
                       /\ last'.user_id = k.user_id
                       /\ last'.request.conflict_id = k.id
      ]_vars

C11_Witness ==
    /\ last.op = "conflicts"
    /\ last.status = 200
    /\ Len(last.returned.conflicts) = 1
    /\ Cardinality(OwnedBy(sync_conflicts, last.user_id)) = 2
    /\ \E k \in OwnedBy(sync_conflicts, last.user_id) :
         k.resolved /\ k.detected_at > last.returned.conflicts[1].detected_at

(* The resolve has nothing to act on: the owner has no conflict with the   *)
(* id (there is none, or it is another owner's), or the conflict's target  *)
(* record is gone.                                                         *)
NothingToResolve(u, conflict_id) ==
    \A k \in ConflictOf(u, conflict_id) : Stored(u, k.log_id) = {}

Page(resp) == { resp.returned.backups[i] : i \in DOMAIN resp.returned.backups }

(* The owner's records after the cursor and not of the excluded device.    *)
Matching(u, since, device_id) ==
    { r \in encrypted_backups :
        /\ r.user_id = u
        /\ since # None => r.updated_at > since[1]
        /\ device_id # None => r.device_id # device_id[1] }

Min(a, b) == IF a < b THEN a ELSE b

(* C13: a fetch returns only records of the owner, after the cursor, not   *)
(* of the excluded device, in ascending updated_at order, and they are the *)
(* first min(limit, n) of the n matching records.                          *)
C13_FetchSince ==
    ( last.op = "fetch" /\ last.status = 200 )
    => LET got == last.returned.backups
           matching == Matching(last.user_id, last.request.since,
                                last.request.device_id)
       IN  /\ Page(last) \subseteq matching
           /\ Len(got) = Cardinality(Page(last))
           /\ Len(got) = Min(last.request.limit, Cardinality(matching))
           /\ \A i, j \in DOMAIN got : i < j => got[i].updated_at <= got[j].updated_at
           /\ \A r \in matching \ Page(last) :
                \A i \in DOMAIN got : got[i].updated_at <= r.updated_at

(* C14: has_more is true exactly when the page holds limit records; when   *)
(* it is false, every matching record of the owner is in the page.         *)
C14_HasMore ==
    ( last.op = "fetch" /\ last.status = 200 )
    => /\ last.returned.has_more
            <=> ( Len(last.returned.backups) = last.request.limit )
       /\ ~ last.returned.has_more
            => Matching(last.user_id, last.request.since,
                        last.request.device_id) \subseteq Page(last)

(* A page that is exactly filled: has_more although nothing is left.       *)
C14_Witness ==
    /\ last.op = "fetch"
    /\ last.status = 200
    /\ last.returned.has_more
    /\ Len(last.returned.backups) = 2
    /\ Matching(last.user_id, last.request.since, last.request.device_id)
         = Page(last)
    /\ OwnedBy(encrypted_backups, last.user_id) # Page(last)

(* The embedding columns of the row are the candidate's embedding fields.  *)
EmbeddingIs(row, c) ==
    /\ row.embedding_iv = c.embedding_iv
    /\ IF c.encrypted_embedding = None
       THEN row.encrypted_embedding = None
       ELSE /\ row.encrypted_embedding # None
            /\ b64encode(row.encrypted_embedding[1]) = c.encrypted_embedding[1]

(* C15: a push by a full_sync owner who holds no record with the           *)
(* candidate's id, whatever other owners hold, creates exactly one record  *)
(* carrying the candidate's fields and returns it without a conflict; and  *)
(* no state has two records of one owner with one id.                      *)
C15_KeyedByOwnerAndId ==
    [][ LET u == last'.user_id
            c == last'.request
        IN  /\ ( /\ last'.op = "upload"
                 /\ upload_encrypted_backup(u, c)
                 /\ privacy_tier[u] = "full_sync"
                 /\ Stored(u, c.id) = {} )
               => /\ last'.status = 201
                  /\ sync_conflicts' = sync_conflicts
                  /\ \E row \in encrypted_backups' \ encrypted_backups :
                       /\ encrypted_backups' = encrypted_backups \cup { row }
                       /\ row.user_id = u
                       /\ row.id = c.id
                       /\ row.created_at = c.created_at
                       /\ VersionIs(row, c)
                       /\ EmbeddingIs(row, c)
                       /\ last'.returned = Some(row)
            /\ \A r1, r2 \in encrypted_backups' :
                 ( r1.user_id = r2.user_id /\ r1.id = r2.id ) => r1 = r2
      ]_vars

(* C16: a delete removes the owner's record with the id when there is one  *)
(* and answers 200, answers 404 when there is none, and leaves every other *)
(* record and every conflict, those on this id too, as they were.          *)
C16_DeleteFrame ==
    [][ LET u == last'.user_id
            id == last'.request
        IN  ( last'.op = "delete" /\ delete_encrypted_backup(u, id) )
            => /\ encrypted_backups' = encrypted_backups \ Stored(u, id)
               /\ last'.status = IF Stored(u, id) # {} THEN 200 ELSE 404
               /\ sync_conflicts' = sync_conflicts
               /\ privacy_tier' = privacy_tier
      ]_vars

C16_Witness ==
    /\ last.op = "delete"
    /\ last.status = 200
    /\ Stored(last.user_id, last.request) = {}
    /\ \E k \in OwnedBy(sync_conflicts, last.user_id) :
         k.log_id = last.request /\ k.resolved = FALSE

(* C17: every sync operation of a caller whose tier is not full_sync is    *)
(* answered 403 and changes no record.                                     *)
C17_TierGate ==
    [][ ( /\ last'.op \in { "upload", "fetch", "delete", "conflicts", "resolve" }
          /\ privacy_tier[last'.user_id] # "full_sync" )
        => /\ last'.status = 403
           /\ encrypted_backups' = encrypted_backups
           /\ sync_conflicts' = sync_conflicts
      ]_vars

(* C18: a revoke leaves the owner without backups and without metrics, at  *)
(* tier local_only, reports the numbers of rows that existed, and changes  *)
(* nothing of any other owner; it is one step.                             *)
C18_RevokePurges ==
    [][ LET u == last'.user_id
        IN  ( last'.op = "revoke" /\ revoke_cloud_sync(u) )
            => /\ last'.status = 200
               /\ OwnedBy(encrypted_backups', u) = {}
               /\ OwnedBy(encrypted_metrics', u) = {}
               /\ privacy_tier'[u] = "local_only"
               /\ last'.returned.deleted_backups
                    = Cardinality(OwnedBy(encrypted_backups, u))
               /\ last'.returned.deleted_metrics
                    = Cardinality(OwnedBy(encrypted_metrics, u))
               /\ \A v \in Users \ { u } :
                    /\ OwnedBy(encrypted_backups', v) = OwnedBy(encrypted_backups, v)
                    /\ OwnedBy(encrypted_metrics', v) = OwnedBy(encrypted_metrics, v)
                    /\ OwnedBy(sync_conflicts', v) = OwnedBy(sync_conflicts, v)
                    /\ privacy_tier'[v] = privacy_tier[v]
      ]_vars

C18_Witness ==
    /\ last.op = "revoke"
    /\ last.status = 200
    /\ last.returned.deleted_backups = 2
    /\ last.returned.deleted_metrics = 1
    /\ privacy_tier[last.user_id] = "local_only"
    /\ \E v \in Users \ { last.user_id } :
         /\ OwnedBy(encrypted_backups, v) # {}
         /\ OwnedBy(encrypted_metrics, v) # {}

(* C19: an owner whose tier is local_only, never opted in or purged by a   *)
(* revoke, holds no backup, however the revoke interleaves with pushes.    *)
C19_NoBackupAfterPurge ==
    \A u \in Users :
        privacy_tier[u] = "local_only" => OwnedBy(encrypted_backups, u) = {}

(* C20: after a push that overwrites the owner's record, the record's      *)
(* content, IV, auth tag, embedding, embedding IV, updated_at and          *)
(* device_id are the candidate's, with or without embedding fields.        *)
C20_OverwriteAllFields ==
    [][ LET u == last'.user_id
            c == last'.request
        IN  ( /\ last'.op = "upload"
              /\ last'.status = 201
              /\ upload_encrypted_backup(u, c)
              /\ Stored(u, c.id) # {} )
            => \A row \in BackupsOf(encrypted_backups', c.id, u) :
                 VersionIs(row, c) /\ EmbeddingIs(row, c)
      ]_vars

(* A merged resolution that carries content and IV.                        *)
MergedSupplied(res) ==
    /\ res.chosen_version = "merged"
    /\ Truthy(res.final_encrypted_content)
    /\ Truthy(res.final_iv)

(* C21: resolving an existing conflict whose target exists with a merged   *)
(* version that carries content and IV sets the record's content and IV to *)
(* the supplied values and its updated_at to the server time of the call,  *)
(* sets the embedding fields when a final embedding is supplied and leaves *)
(* them otherwise, leaves created_at and device_id, and marks the conflict *)
(* resolved.                                                               *)
C21_ResolveMerged ==
    [][ \A res \in Resolutions :
          LET u == last'.user_id
              id == last'.request.conflict_id
          IN  ( /\ last'.op = "resolve"
                /\ MergedSupplied(res)
                /\ resolve_sync_conflict(u, id, res) )
              => \A k \in ConflictOf(u, id) : \A old \in Stored(u, k.log_id) :
                   /\ last'.status = 200
                   /\ \E r \in BackupsOf(encrypted_backups', k.log_id, u) :
                        /\ encrypted_backups' =
                             (encrypted_backups \ { old }) \cup { r }
                        /\ b64encode(r.encrypted_content)
                             = res.final_encrypted_content[1]
                        /\ r.content_iv = res.final_iv[1]
                        /\ r.updated_at >= clock /\ r.updated_at <= clock'
                        /\ IF Truthy(res.final_encrypted_embedding)
                           THEN /\ r.encrypted_embedding # None
                                /\ b64encode(r.encrypted_embedding[1])
                                     = res.final_encrypted_embedding[1]
                                /\ r.embedding_iv = res.final_embedding_iv
                           ELSE /\ r.encrypted_embedding = old.encrypted_embedding
                                /\ r.embedding_iv = old.embedding_iv
                        /\ r.created_at = old.created_at
                        /\ r.device_id = old.device_id
                        /\ last'.returned = Some(r)
                   /\ \E k2 \in sync_conflicts' :
                        /\ k2.id = id
                        /\ k2.resolved = TRUE
                        /\ k2.resolved_at # None
      ]_vars

C21_Witness ==
    /\ last.op = "resolve"
    /\ last.status = 200
    /\ last.request.chosen_version = "merged"
    /\ \E k \in ConflictOf(last.user_id, last.request.conflict_id) :
         /\ k.resolved
         /\ last.returned[1] \in Stored(last.user_id, k.log_id)
         /\ last.returned[1].encrypted_content = MergedBytes
         /\ last.returned[1].encrypted_embedding = Some(MergedEmbeddingBytes)
         /\ last.returned[1].updated_at > k.remote_updated_at
         /\ last.returned[1].device_id = k.remote_device_id

(* C22: no state has two unresolved conflicts of one owner on one record   *)
(* id, whatever pushes were rejected while an earlier conflict was open.   *)
C22_OneUnresolvedPerRecord ==
    \A k1, k2 \in sync_conflicts :
        ( /\ k1.user_id = k2.user_id
          /\ k1.log_id = k2.log_id
          /\ k1.resolved = FALSE
          /\ k2.resolved = FALSE )
        => k1 = k2

(* C23: a resolve on a conflict that is already resolved changes no        *)
(* backup record and leaves the conflict's resolved_at at the time of the  *)
(* first resolution.                                                       *)
C23_ResolvedOnce ==
    [][ last'.op = "resolve"
        => \A k \in ConflictOf(last'.user_id, last'.request.conflict_id) :
             k.resolved
             => /\ encrypted_backups' = encrypted_backups
                /\ \E k2 \in sync_conflicts' :
                     k2.id = k.id /\ k2.resolved_at = k.resolved_at
      ]_vars

(* C24: whenever a conflict is unresolved and its target record exists,    *)
(* the record's content, IV, updated_at and device_id are those of the     *)
(* conflict's remote version.                                              *)
C24_RemoteIsStored ==
    \A k \in sync_conflicts :
        k.resolved = FALSE
        => \A r \in BackupsOf(encrypted_backups, k.log_id, k.user_id) :
             /\ r.encrypted_content = k.remote_encrypted_content
             /\ r.content_iv = k.remote_iv
             /\ r.updated_at = k.remote_updated_at
             /\ r.device_id = k.remote_device_id

(* C25: a push that overwrites a record or a resolution that rewrites it   *)
(* never lowers the record's updated_at.                                   *)
C25_UpdatedAtMonotonic ==
    [][ \A old \in encrypted_backups :
          \A new \in BackupsOf(encrypted_backups', old.id, old.user_id) :
            new.updated_at >= old.updated_at
      ]_vars

(* C26: from a record's creation to its deletion no push, accepted with    *)
(* another created_at or rejected, and no resolution changes its           *)
(* created_at.                                                             *)
C26_CreatedAtImmutable ==
    [][ \A old \in encrypted_backups :
          \A new \in BackupsOf(encrypted_backups', old.id, old.user_id) :
            new.created_at = old.created_at
      ]_vars

C26_Witness ==
    /\ last.op = "upload"
    /\ last.status = 201
    /\ last.loaded # None
    /\ \E r \in Stored(last.user_id, last.request.id) :
         /\ VersionIs(r, last.request)
         /\ last.request.encrypted_content
              # b64encode(last.loaded[1].encrypted_content)
         /\ r.created_at # last.request.created_at

(* C27: after a resolve with local that succeeds the record's auth tag is  *)
(* the auth tag of the conflict's local version, as its content and IV     *)
(* are.                                                                    *)
C27_TagFollowsContent ==
    [][ ( /\ last'.op = "resolve"
          /\ last'.status = 200
          /\ last'.request.chosen_version = "local" )
        => \A k \in ConflictOf(last'.user_id, last'.request.conflict_id) :
             \A r \in BackupsOf(encrypted_backups', k.log_id, k.user_id) :
               /\ r.encrypted_content = k.local_encrypted_content
               /\ r.content_iv = k.local_iv
               /\ r.content_tag = k.local_tag
      ]_vars

(* The conflict row keeps the ciphertext of the row as its local or its    *)
(* remote version.                                                         *)
Preserves(conflict, row) ==
    /\ conflict.user_id = row.user_id
    /\ conflict.log_id = row.id
    /\ \/ /\ conflict.local_encrypted_content = row.encrypted_content
          /\ conflict.local_iv = row.content_iv
       \/ /\ conflict.remote_encrypted_content = row.encrypted_content
          /\ conflict.remote_iv = row.content_iv

(* C28: a resolve with local replaces the stored version, a push accepted  *)
(* after the conflict was detected included, only if some ConflictRecord   *)
(* keeps the replaced version.                                             *)
C28_ResolveKeepsLaterWrite ==
    [][ ( /\ last'.op = "resolve"
          /\ last'.status = 200
          /\ last'.request.chosen_version = "local" )
        => \A k \in ConflictOf(last'.user_id, last'.request.conflict_id) :
             \A old \in Stored(k.user_id, k.log_id) :
               \/ old \in encrypted_backups'
               \/ \E kept \in sync_conflicts' : Preserves(kept, old)
      ]_vars

(* C29: a client that pages with a fixed limit from no cursor until        *)
(* has_more is false has received every record of the owner that passes    *)
(* the device filter, records sharing one updated_at included.             *)
C29_PaginationComplete ==
    last.op = "pages"
    => Matching(last.user_id, None, last.request.device_id)
         \subseteq last.returned

(* C30: once a revoke has been answered the owner has no conflict record   *)
(* left, so no ciphertext of the owner's entries remains in either table.  *)
C30_RevokeForgetsConflicts ==
    ( last.op = "revoke" /\ last.status = 200 )
    => /\ OwnedBy(encrypted_backups, last.user_id) = {}
       /\ OwnedBy(sync_conflicts, last.user_id) = {}

====
